---- MODULE Spec2Model ----
(***************************************************************************)
(* Model of the Piper TTS LiveKit plugin:                                  *)
(*   - LatencyTracker (src/src/agent_latency_test.py), the table that      *)
(*     correlates the stt / llm / tts latencies of one speech_id;          *)
(*   - PiperStream (src/src/custom_tts/PiperTTSPluginLocal.py), the        *)
(*     coroutine that runs the piper subprocess in a worker thread, reads  *)
(*     the wav file it wrote and pushes the audio to the output emitter.   *)
(* The two components never call each other: SpecTracker runs the tracker, *)
(* Spec runs one synthesis call.                                           *)
(***************************************************************************)
EXTENDS Integers, Sequences, FiniteSets, TLC

VARIABLES
    \* ---- LatencyTracker ----
    parts,      \* self.parts: speech_id -> (part name -> latency in ms)
    called,     \* whether on_metrics_collected has been called at all
    event,      \* the argument of the last on_metrics_collected call
    before,     \* self.parts as it was when the last call started
    logged,     \* the logger.info lines of the last call, in order
    returned,   \* what the last call returned
    completed,  \* history (SpecTrackerHistory): the keys completed by a
                \* call before the last one
    \* ---- one PiperStream._run call and its environment ----
    piperExists,  \* os.path.exists(self.plugin.piper_path)
    piperExecutable,  \* whether the file at piper_path can be executed
    modelExists,  \* os.path.exists(self.plugin.model_path)
    pc,           \* where the _run coroutine is
    error,        \* the exception _run raised, if any
    inits,        \* the output_emitter.initialize calls, in order
    pushed,       \* the output_emitter.push calls, in order
    tempCreated,  \* how many temporary files the call has created
    file,         \* the temporary file on disk
    gen,          \* the executor job running self._generate
    genResult,    \* what that job returned or raised
    proc,         \* the piper subprocess
    spawns,       \* how many times subprocess.run was entered
    rd,           \* the executor job running self._read
    readResult,   \* what that job returned or raised
    reads,        \* how many times self._read was started
    agen,         \* the emit_audio async generator
    engineOut,    \* history: what piper wrote to its output file
    jobThread,    \* the thread the job _run is waiting for was given to
    otherDuring,  \* history (SpecLoop): the jobs during which another task
                  \* of the event loop took a step
    \* ---- several _run calls on one plugin (SpecConcurrent) ----
    cpc,          \* call -> where its _run coroutine is
    cpath,        \* call -> its temp_file
    disk,         \* path -> the file there
    cgen,         \* call -> its executor job running self._generate
    cgenResult,   \* call -> what that job returned or raised
    cproc,        \* call -> its piper subprocess
    crd,          \* call -> its executor job running self._read
    cread,        \* call -> what that job returned or raised
    cpushed,      \* call -> its output_emitter.push calls
    cerr,         \* call -> the exception its _run raised
    cagen,        \* call -> its emit_audio async generator
    cremoved      \* history: call -> the creators of the files it unlinked

trackerVars == <<parts, called, event, before, logged, returned, completed>>
bridgeVars == <<piperExists, piperExecutable, modelExists, pc, error, inits, pushed, tempCreated,
                file, gen, genResult, proc, spawns, rd, readResult, reads, agen,
                engineOut, jobThread, otherDuring>>
concVars == <<cpc, cpath, disk, cgen, cgenResult, cproc, crd, cread, cpushed,
              cerr, cagen, cremoved>>
vars == <<trackerVars, bridgeVars, concVars>>

(***************************************************************************)
(* Python values                                                           *)
(***************************************************************************)
\* Optional[float]: None is the empty tuple, a value x is <<x>>.
None == <<>>
Some(x) == <<x>>

\* dict operations on functions whose domain is the set of keys present.
EmptyDict == <<>>
\* A fresh dict holding the one entry: every other key is dropped.
DictPutAlone(d, k, v) == [x \in {k} |-> v]

DictPut(d, k, v) == [x \in DOMAIN d \cup {k} |-> IF x = k THEN v ELSE d[x]]
\* A pop that removes nothing.
DictPopKeeps(d, k) == d

DictPop(d, k) == [x \in DOMAIN d \ {k} |-> d[x]]

(***************************************************************************)
(* LatencyTracker                                                          *)
(***************************************************************************)
\* speech ids seen by the tracker, and the value of getattr(metric,
\* "speech_id", None) when the attribute is missing or None.
Keys == {"a", "b"}
NoKey == "None"

\* Timing attributes a metric object may carry, and the durations they hold,
\* counted in twentieths of a second (1 = 0.05 s, 2 = 0.1 s, 4 = 0.2 s).
\* Each attribute is given two of the three durations.
Fields == {"end_of_utterance_delay", "ttft", "ttfb"}
Durations(f) ==
    IF f = "end_of_utterance_delay" THEN {2, 4}
    ELSE IF f = "ttft" THEN {4, 1}
    ELSE {1, 2}
MsPerSecond == 1000

\* A metric object: its speech_id and the timing attributes it has
\* (hasattr(metric, f) is f \in DOMAIN m.fields).
Metrics ==
    [key : Keys \cup {NoKey},
     fields : UNION {{g \in [S -> {1, 2, 4}] : \A f \in S : g[f] \in Durations(f)} :
                     S \in SUBSET Fields}]

\* float(seconds) * 1000.0
ToMs(d) == (d * MsPerSecond) \div 20

_stt_latency_ms(metric) ==
    IF "end_of_utterance_delay" \in DOMAIN metric.fields
    THEN Some(ToMs(metric.fields["end_of_utterance_delay"]))
    ELSE None

_llm_latency_ms(metric) ==
    IF "ttft" \in DOMAIN metric.fields
    THEN Some(ToMs(metric.fields["ttft"]))
    ELSE None

_tts_latency_ms(metric) ==
    IF "ttfb" \in DOMAIN metric.fields
    THEN Some(ToMs(metric.fields["ttfb"]))
    ELSE None

\* The if / elif / elif chain that logs one per-kind latency line.
KindLog(stt_ms, llm_ms, tts_ms) ==
    IF stt_ms # None THEN <<[line |-> "STT", ms |-> stt_ms[1]]>>
    ELSE IF llm_ms # None THEN <<[line |-> "LLM", ms |-> llm_ms[1]]>>
    ELSE IF tts_ms # None THEN <<[line |-> "TTS", ms |-> tts_ms[1]]>>
    ELSE <<>>

\* setdefault instead of assignment: a part already present keeps its value.
SetPartsFirstWins(part_map, stt_ms, llm_ms, tts_ms) ==
    LET keep(m, p, v) == IF v # None /\ p \notin DOMAIN m THEN DictPut(m, p, v[1]) ELSE m
    IN  keep(keep(keep(part_map, "stt", stt_ms), "llm", llm_ms), "tts", tts_ms)

\* part_map after the three "if x_ms is not None: part_map[...] = x_ms".
SetParts(part_map, stt_ms, llm_ms, tts_ms) ==
    LET m1 == IF stt_ms # None THEN DictPut(part_map, "stt", stt_ms[1]) ELSE part_map
        m2 == IF llm_ms # None THEN DictPut(m1, "llm", llm_ms[1]) ELSE m1
    IN  IF tts_ms # None THEN DictPut(m2, "tts", tts_ms[1]) ELSE m2

\* all(k in part_map for k in ("stt", "llm", "tts"))
AllParts(part_map) == {"stt", "llm", "tts"} \subseteq DOMAIN part_map

\* total_ms = part_map["stt"] + part_map["llm"] + part_map["tts"]
TotalMs(part_map) == part_map["stt"] + part_map["llm"] + part_map["tts"]

TotalLog(key, part_map) ==
    [line |-> "Total", key |-> key, stt |-> part_map["stt"],
     llm |-> part_map["llm"], tts |-> part_map["tts"],
     total |-> TotalMs(part_map)]

\* The early return left out: every key is taken.
NotKeyNever(key) == FALSE

\* "if not key": the speech_id is missing or None.
NotKey(key) == key = NoKey

\* LatencyTracker.__init__
TrackerInit ==
    /\ parts = EmptyDict
    /\ called = FALSE
    /\ event = [key |-> NoKey, fields |-> EmptyDict]
    /\ before = EmptyDict
    /\ logged = <<>>
    /\ returned = None
    /\ completed = {}

\* The keys the last call logged a combined total for.
JustCompleted ==
    {logged[i].key : i \in {j \in DOMAIN logged : logged[j].line = "Total"}}

\* LatencyTracker.on_metrics_collected(metric)
on_metrics_collected(metric) ==
    LET stt_ms == _stt_latency_ms(metric)
        llm_ms == _llm_latency_ms(metric)
        tts_ms == _tts_latency_ms(metric)
        kind == KindLog(stt_ms, llm_ms, tts_ms)
        key == metric.key
        old == IF key \in DOMAIN parts THEN parts[key] ELSE EmptyDict
        part_map == SetParts(old, stt_ms, llm_ms, tts_ms)
    IN  /\ called' = TRUE
        /\ event' = metric
        /\ before' = parts
        /\ returned' = None     \* "-> None": no return statement has a value
        /\ IF NotKey(key)
           THEN /\ logged' = kind
                /\ parts' = parts
           ELSE IF AllParts(part_map)
           THEN /\ logged' = kind \o <<TotalLog(key, part_map)>>
                /\ parts' = DictPop(DictPut(parts, key, part_map), key)
           ELSE /\ logged' = kind
                /\ parts' = DictPut(parts, key, part_map)

OnMetrics ==
    /\ \E metric \in Metrics : on_metrics_collected(metric)
    /\ UNCHANGED <<completed, bridgeVars, concVars>>

\* Metric objects shaped like the framework's own (EOUMetrics, LLMMetrics,
\* TTSMetrics, and the kinds with no timing): at most one timing attribute.
FrameworkMetrics == {m \in Metrics : Cardinality(DOMAIN m.fields) <= 1}

\* The same call on the framework's metrics, with the keys completed so far
\* recorded.
OnMetricsHistory ==
    /\ \E metric \in FrameworkMetrics : on_metrics_collected(metric)
    /\ completed' = completed \cup JustCompleted
    /\ UNCHANGED <<bridgeVars, concVars>>

(***************************************************************************)
(* The wav file piper writes, and PiperStream._read                        *)
(***************************************************************************)
\* int16 sample values the data of a file is made of.
Samples == {-32768, -4, 4, 100, 200, 32767}

\* The data chunk of a container holds at most 2 * MaxWords + 1 bytes.
MaxWords == 4
MaxBytes == 2 * MaxWords + 1

Channels == {1, 2, 3}
Widths == {1, 2}

\* What wave.open finds in the header: w.getnchannels(), w.getsampwidth(),
\* w.getnframes().
Headers ==
    {h \in [nchannels : Channels, sampwidth : Widths, nframes : 0..MaxBytes] :
        h.nchannels * h.sampwidth * h.nframes <= MaxBytes}

\* w.readframes(w.getnframes()) returns nframes * nchannels * sampwidth bytes.
NBytes(h) == h.nframes * h.nchannels * h.sampwidth

\* A container is its header and its data. The data is kept as the int16
\* words np.frombuffer(..., dtype=np.int16) makes of each pair of bytes
\* (little-endian pairs and int16 values correspond one to one); a last odd
\* byte is not kept: NBytes(h) says it is there.
Containers ==
    UNION {[kind : {"wav"}, nchannels : {h.nchannels}, sampwidth : {h.sampwidth},
            nframes : {h.nframes}, words : [1..(NBytes(h) \div 2) -> Samples]] :
           h \in Headers}

Absent == [kind |-> "absent"]      \* no file at the path
EmptyFile == [kind |-> "empty"]    \* what NamedTemporaryFile leaves: 0 bytes
Corrupt == [kind |-> "corrupt"]    \* bytes that are no RIFF/WAVE container

\* Integer floor division of the sum, "(l + r) // 2".
MeanFloor(l, r) == (l + r) \div 2

\* .mean(axis=1).astype(np.int16) on one row: the float64 mean of the two
\* samples, converted to int16 by dropping the fraction (toward zero).
MeanAsInt16(l, r) ==
    LET s == l + r
    IN  IF s >= 0 THEN s \div 2 ELSE -((-s) \div 2)

\* audio.reshape(-1, 2).mean(axis=1).astype(np.int16)
Downmix(audio) ==
    [i \in 1..(Len(audio) \div 2) |-> MeanAsInt16(audio[2 * i - 1], audio[2 * i])]

Raised(type) == [ok |-> FALSE, type |-> type]
Returned(audio) == [ok |-> TRUE, audio |-> audio]

\* PiperStream._read(wav_file), wav_file holding f. The bytes it returns are
\* kept as the int16 samples they encode.
_read(f) ==
    IF f.kind = "absent" THEN Raised("FileNotFoundError")
    ELSE IF f.kind = "empty" THEN Raised("EOFError")
    ELSE IF f.kind = "corrupt" THEN Raised("wave.Error")
    ELSE IF NBytes(f) % 2 # 0 THEN Raised("ValueError")
    ELSE IF f.nchannels = 2
         THEN IF Len(f.words) % 2 # 0 THEN Raised("ValueError")
              ELSE Returned(Downmix(f.words))
    ELSE Returned(f.words)


(***************************************************************************)
(* PiperStream._run: one synthesis call                                    *)
(***************************************************************************)
\* PiperTTSPlugin.__init__'s default sample_rate.
SampleRate == 22050

NoError == [type |-> "none"]
NoResult == [ok |-> FALSE, type |-> "pending"]

BridgeInit ==
    /\ piperExists \in BOOLEAN
    /\ piperExecutable \in BOOLEAN
    /\ piperExecutable => piperExists
    /\ modelExists \in BOOLEAN
    /\ pc = "start"
    /\ error = NoError
    /\ inits = <<>>
    /\ pushed = <<>>
    /\ tempCreated = 0
    /\ file = Absent
    /\ gen = "idle"
    /\ genResult = "pending"
    /\ proc = "none"
    /\ spawns = 0
    /\ rd = "idle"
    /\ readResult = NoResult
    /\ reads = 0
    /\ agen = "none"
    /\ engineOut = Absent
    /\ jobThread = "none"
    /\ otherDuring = {}

\* The finally block of emit_audio: os.unlink(temp_file), errors swallowed.
Unlink == file' = Absent

\* output_emitter.initialize moved above the two path checks.
RunStartInitFirst ==
    /\ pc = "start"
    /\ inits' = Append(inits, [request_id |-> "piper-local",
                               sample_rate |-> SampleRate,
                               num_channels |-> 1,
                               mime_type |-> "audio/pcm",
                               stream |-> FALSE])
    /\ IF ~piperExists
       THEN /\ pc' = "raised"
            /\ error' = [type |-> "FileNotFoundError", path |-> "piper_path"]
            /\ UNCHANGED <<tempCreated, file, gen, agen, jobThread>>
       ELSE IF ~modelExists
       THEN /\ pc' = "raised"
            /\ error' = [type |-> "FileNotFoundError", path |-> "model_path"]
            /\ UNCHANGED <<tempCreated, file, gen, agen, jobThread>>
       ELSE /\ tempCreated' = tempCreated + 1
            /\ file' = EmptyFile
            /\ gen' = "queued"
            /\ jobThread' = "worker"
            /\ agen' = "running"
            /\ pc' = "await_generate"
            /\ UNCHANGED error
    /\ UNCHANGED <<piperExists, piperExecutable, modelExists, pushed, genResult, proc, spawns,
                   rd, readResult, reads>>
    /\ UNCHANGED <<engineOut, otherDuring, trackerVars, concVars>>

\* self._generate(temp_file) called directly in the coroutine: the
\* subprocess runs on the event loop's own thread.
RunStartBlocking ==
    /\ pc = "start"
    /\ IF ~piperExists
       THEN /\ pc' = "raised"
            /\ error' = [type |-> "FileNotFoundError", path |-> "piper_path"]
            /\ UNCHANGED <<inits, tempCreated, file, gen, agen, jobThread>>
       ELSE IF ~modelExists
       THEN /\ pc' = "raised"
            /\ error' = [type |-> "FileNotFoundError", path |-> "model_path"]
            /\ UNCHANGED <<inits, tempCreated, file, gen, agen, jobThread>>
       ELSE /\ inits' = Append(inits, [request_id |-> "piper-local",
                                       sample_rate |-> SampleRate,
                                       num_channels |-> 1,
                                       mime_type |-> "audio/pcm",
                                       stream |-> FALSE])
            /\ tempCreated' = tempCreated + 1
            /\ file' = EmptyFile
            /\ gen' = "queued"
            /\ jobThread' = "loop"
            /\ agen' = "running"
            /\ pc' = "await_generate"
            /\ UNCHANGED error
    /\ UNCHANGED <<piperExists, piperExecutable, modelExists, pushed, genResult, proc, spawns,
                   rd, readResult, reads>>
    /\ UNCHANGED <<engineOut, otherDuring, trackerVars, concVars>>

\* _run up to its first await: the two os.path.exists checks,
\* output_emitter.initialize, then emit_audio up to the first
\* run_in_executor (the temporary file is created, _generate is submitted).
RunStart ==
    /\ pc = "start"
    /\ IF ~piperExists
       THEN /\ pc' = "raised"
            /\ error' = [type |-> "FileNotFoundError", path |-> "piper_path"]
            /\ UNCHANGED <<inits, tempCreated, file, gen, agen, jobThread>>
       ELSE IF ~modelExists
       THEN /\ pc' = "raised"
            /\ error' = [type |-> "FileNotFoundError", path |-> "model_path"]
            /\ UNCHANGED <<inits, tempCreated, file, gen, agen, jobThread>>
       ELSE /\ inits' = Append(inits, [request_id |-> "piper-local",
                                       sample_rate |-> SampleRate,
                                       num_channels |-> 1,
                                       mime_type |-> "audio/pcm",
                                       stream |-> FALSE])
            /\ tempCreated' = tempCreated + 1
            /\ file' = EmptyFile
            /\ gen' = "queued"
            /\ jobThread' = "worker"
            /\ agen' = "running"
            /\ pc' = "await_generate"
            /\ UNCHANGED error
    /\ UNCHANGED <<piperExists, piperExecutable, modelExists, pushed, genResult, proc, spawns,
                   rd, readResult, reads>>
    /\ UNCHANGED <<engineOut, otherDuring, trackerVars, concVars>>

\* The worker thread enters _generate: subprocess.run spawns piper, or fails
\* to (OSError) and the job ends. A file that cannot be executed is never
\* spawned (PermissionError, an OSError).
GenerateSpawn ==
    /\ gen = "queued"
    /\ spawns' = spawns + 1
    /\ \E spawned \in (IF piperExecutable THEN BOOLEAN ELSE {FALSE}) :
          IF spawned
          THEN /\ proc' = "running"
               /\ gen' = "running"
               /\ UNCHANGED genResult
          ELSE /\ gen' = "done"
               /\ genResult' = "OSError"
               /\ UNCHANGED proc
    /\ UNCHANGED <<piperExists, piperExecutable, modelExists, pc, error, inits, pushed,
                   tempCreated, file, rd, readResult, reads, agen>>
    /\ UNCHANGED <<engineOut, jobThread, otherDuring, trackerVars, concVars>>

\* piper opens --output_file by its path and writes its output there: the
\* file is created when the path holds none.
EngineWrite ==
    /\ proc = "running"
    /\ proc' = "wrote"
    /\ \E c \in Containers \cup {Corrupt} : file' = c /\ engineOut' = c
    /\ UNCHANGED <<jobThread, otherDuring>>
    /\ UNCHANGED <<piperExists, piperExecutable, modelExists, pc, error, inits, pushed,
                   tempCreated, gen, genResult, spawns, rd, readResult, reads,
                   agen>>
    /\ UNCHANGED <<trackerVars, concVars>>

\* subprocess.run without check=True: a non-zero code raises nothing.
EngineExitUnchecked ==
    /\ proc \in {"running", "wrote"}
    /\ \E code \in {0, 1} :
          /\ proc' = IF code = 0 THEN "exited0" ELSE "exited1"
          /\ genResult' = "ok"
    /\ gen' = "done"
    /\ UNCHANGED <<piperExists, piperExecutable, modelExists, pc, error, inits, pushed,
                   tempCreated, file, spawns, rd, readResult, reads, agen>>
    /\ UNCHANGED <<engineOut, jobThread, otherDuring, trackerVars, concVars>>

\* piper exits; subprocess.run(check=True) returns in the worker thread, or
\* raises CalledProcessError on a non-zero code.
EngineExit ==
    /\ proc \in {"running", "wrote"}
    /\ \E code \in {0, 1} :
          /\ proc' = IF code = 0 THEN "exited0" ELSE "exited1"
          /\ genResult' = IF code = 0 THEN "ok" ELSE "CalledProcessError"
    /\ gen' = "done"
    /\ UNCHANGED <<piperExists, piperExecutable, modelExists, pc, error, inits, pushed,
                   tempCreated, file, spawns, rd, readResult, reads, agen>>
    /\ UNCHANGED <<engineOut, jobThread, otherDuring, trackerVars, concVars>>

\* The first await returns: on an exception the finally block runs and _run
\* raises; otherwise _read is submitted to the executor.
GenerateResume ==
    /\ pc = "await_generate"
    /\ gen = "done"
    /\ IF genResult # "ok"
       THEN /\ Unlink
            /\ agen' = "closed"
            /\ pc' = "raised"
            /\ error' = [type |-> genResult]
            /\ UNCHANGED rd
       ELSE /\ rd' = "queued"
            /\ pc' = "await_read"
            /\ UNCHANGED <<file, agen, error>>
    /\ UNCHANGED <<piperExists, piperExecutable, modelExists, inits, pushed, tempCreated, gen,
                   genResult, proc, spawns, readResult, reads>>
    /\ UNCHANGED <<engineOut, jobThread, otherDuring, trackerVars, concVars>>

\* The worker thread runs _read on the temporary file.
ReadWorker ==
    /\ rd = "queued"
    /\ rd' = "done"
    /\ reads' = reads + 1
    /\ readResult' = _read(file)
    /\ UNCHANGED <<piperExists, piperExecutable, modelExists, pc, error, inits, pushed,
                   tempCreated, file, gen, genResult, proc, spawns, agen>>
    /\ UNCHANGED <<engineOut, jobThread, otherDuring, trackerVars, concVars>>

\* The second await raises: the finally block runs and _run raises.
ReadFailed ==
    /\ pc = "await_read"
    /\ rd = "done"
    /\ ~readResult.ok
    /\ Unlink
    /\ agen' = "closed"
    /\ pc' = "raised"
    /\ error' = [type |-> readResult.type]
    /\ UNCHANGED <<piperExists, piperExecutable, modelExists, inits, pushed, tempCreated, gen,
                   genResult, proc, spawns, rd, readResult, reads>>
    /\ UNCHANGED <<engineOut, jobThread, otherDuring, trackerVars, concVars>>

\* The audio pushed one sample at a time.
PushAndReturnPerSample ==
    /\ pc = "await_read"
    /\ rd = "done"
    /\ readResult.ok
    /\ pushed' = pushed \o [i \in 1..Len(readResult.audio) |-> <<readResult.audio[i]>>]
    /\ Unlink
    /\ agen' = "closed"
    /\ pc' = "returned"
    /\ UNCHANGED <<piperExists, piperExecutable, modelExists, error, inits, tempCreated, gen,
                   genResult, proc, spawns, rd, readResult, reads>>
    /\ UNCHANGED <<engineOut, jobThread, otherDuring, trackerVars, concVars>>

\* The second await returns the audio: emit_audio yields it, the loop body
\* pushes it, the loop asks for the next item, emit_audio runs its finally
\* block and ends, and _run returns.
PushAndReturn ==
    /\ pc = "await_read"
    /\ rd = "done"
    /\ readResult.ok
    /\ pushed' = Append(pushed, readResult.audio)
    /\ Unlink
    /\ agen' = "closed"
    /\ pc' = "returned"
    /\ UNCHANGED <<piperExists, piperExecutable, modelExists, error, inits, tempCreated, gen,
                   genResult, proc, spawns, rd, readResult, reads>>
    /\ UNCHANGED <<engineOut, jobThread, otherDuring, trackerVars, concVars>>

\* emit_audio yields the audio and output_emitter.push raises in the loop
\* body: the exception leaves _run while emit_audio is still suspended at
\* its yield, inside the try. Nothing closes the generator here; the event
\* loop's asyncgen finalizer hook schedules its aclose() for later.
PushRaises ==
    /\ pc = "await_read"
    /\ rd = "done"
    /\ readResult.ok
    /\ agen' = "finalizing"
    /\ pc' = "raised"
    /\ error' = [type |-> "PushError"]
    /\ UNCHANGED <<piperExists, piperExecutable, modelExists, inits, pushed, tempCreated, file,
                   gen, genResult, proc, spawns, rd, readResult, reads>>
    /\ UNCHANGED <<engineOut, jobThread, otherDuring, trackerVars, concVars>>

\* The scheduled aclose() runs: GeneratorExit is thrown at the yield and
\* the finally block runs.
AgenFinalize ==
    /\ agen = "finalizing"
    /\ agen' = "closed"
    /\ Unlink
    /\ UNCHANGED <<piperExists, piperExecutable, modelExists, pc, error, inits, pushed,
                   tempCreated, gen, genResult, proc, spawns, rd, readResult,
                   reads>>
    /\ UNCHANGED <<engineOut, jobThread, otherDuring, trackerVars, concVars>>

\* The caller cancels the task while _run is suspended in an await:
\* CancelledError is raised there, the finally block runs and _run raises.
\* A job the executor has not started is cancelled with its future; a job
\* that is running goes on, and so does the subprocess.
Cancel ==
    /\ pc \in {"await_generate", "await_read"}
    /\ Unlink
    /\ agen' = "closed"
    /\ pc' = "raised"
    /\ error' = [type |-> "CancelledError"]
    /\ gen' = IF gen = "queued" THEN "cancelled" ELSE gen
    /\ rd' = IF rd = "queued" THEN "cancelled" ELSE rd
    /\ UNCHANGED <<piperExists, piperExecutable, modelExists, inits, pushed, tempCreated,
                   genResult, proc, spawns, readResult, reads>>
    /\ UNCHANGED <<engineOut, jobThread, otherDuring, trackerVars, concVars>>

\* The job _run is suspended on, while it is not finished.
JobAwaited ==
    IF pc = "await_generate" /\ gen \in {"queued", "running"} THEN {"generate"}
    ELSE IF pc = "await_read" /\ rd = "queued" THEN {"read"}
    ELSE {}

\* Another task of the same event loop takes a step. The loop can run it
\* unless its thread is inside a job that was called directly.
OtherTask ==
    /\ ~(jobThread = "loop" /\ JobAwaited # {})
    /\ otherDuring' = otherDuring \cup JobAwaited
    /\ UNCHANGED <<piperExists, piperExecutable, modelExists, pc, error, inits,
                   pushed, tempCreated, file, gen, genResult, proc, spawns, rd,
                   readResult, reads, agen, engineOut, jobThread>>
    /\ UNCHANGED <<trackerVars, concVars>>

(***************************************************************************)
(* Several synthesis calls on one PiperTTSPlugin. Each synthesize(text)    *)
(* makes its own PiperStream; the calls share the plugin's paths and the   *)
(* directory of temporary files. The audio of a file is kept as the call   *)
(* whose input text piper was given.                                       *)
(***************************************************************************)
Calls == {1, 2}
Paths == {"p1", "p2"}

\* The empty file NamedTemporaryFile creates for call i, and the file at a
\* path once the piper of call i has written there: piper opens the path by
\* name, creating the file when there is none.
TempOf(i) == [kind |-> "empty", owner |-> i]
WrittenBy(i, f) ==
    [kind |-> "wav", owner |-> IF f = Absent THEN i ELSE f.owner, text |-> i]

\* PiperStream._read on such a file.
ReadOf(f) ==
    IF f.kind = "absent" THEN Raised("FileNotFoundError")
    ELSE IF f.kind = "empty" THEN Raised("EOFError")
    ELSE [ok |-> TRUE, audio |-> f.text, owner |-> f.owner]

ConcInit ==
    /\ cpc = [i \in Calls |-> "start"]
    /\ cpath = [i \in Calls |-> "none"]
    /\ disk = [p \in Paths |-> Absent]
    /\ cgen = [i \in Calls |-> "idle"]
    /\ cgenResult = [i \in Calls |-> "pending"]
    /\ cproc = [i \in Calls |-> "none"]
    /\ crd = [i \in Calls |-> "idle"]
    /\ cread = [i \in Calls |-> NoResult]
    /\ cpushed = [i \in Calls |-> <<>>]
    /\ cerr = [i \in Calls |-> NoError]
    /\ cagen = [i \in Calls |-> "none"]
    /\ cremoved = [i \in Calls |-> {}]

\* The finally block of call i: os.unlink(temp_file) removes whatever file
\* is at that path.
CUnlink(i) ==
    /\ disk' = [disk EXCEPT ![cpath[i]] = Absent]
    /\ cremoved' = [cremoved EXCEPT ![i] =
                       IF disk[cpath[i]] = Absent THEN @
                       ELSE @ \cup {disk[cpath[i]].owner}]

\* _run of call i up to its first await (both paths of the plugin exist).
\* NamedTemporaryFile creates a file under a name no file has at that time.
CRunStart ==
    \E i \in Calls : \E p \in Paths :
        /\ cpc[i] = "start"
        /\ disk[p] = Absent
        /\ disk' = [disk EXCEPT ![p] = TempOf(i)]
        /\ cpath' = [cpath EXCEPT ![i] = p]
        /\ cgen' = [cgen EXCEPT ![i] = "queued"]
        /\ cagen' = [cagen EXCEPT ![i] = "running"]
        /\ cpc' = [cpc EXCEPT ![i] = "await_generate"]
        /\ UNCHANGED <<cgenResult, cproc, crd, cread, cpushed, cerr, cremoved>>
        /\ UNCHANGED <<trackerVars, bridgeVars>>

CGenerateSpawn ==
    \E i \in Calls : \E spawned \in BOOLEAN :
        /\ cgen[i] = "queued"
        /\ IF spawned
           THEN /\ cproc' = [cproc EXCEPT ![i] = "running"]
                /\ cgen' = [cgen EXCEPT ![i] = "running"]
                /\ UNCHANGED cgenResult
           ELSE /\ cgen' = [cgen EXCEPT ![i] = "done"]
                /\ cgenResult' = [cgenResult EXCEPT ![i] = "OSError"]
                /\ UNCHANGED cproc
        /\ UNCHANGED <<cpc, cpath, disk, crd, cread, cpushed, cerr, cagen, cremoved>>
        /\ UNCHANGED <<trackerVars, bridgeVars>>

\* The piper of call i writes the audio of its text to its --output_file.
CEngineWrite ==
    \E i \in Calls :
        /\ cproc[i] = "running"
        /\ cproc' = [cproc EXCEPT ![i] = "wrote"]
        /\ disk' = [disk EXCEPT ![cpath[i]] = WrittenBy(i, @)]
        /\ UNCHANGED <<cpc, cpath, cgen, cgenResult, crd, cread, cpushed, cerr,
                       cagen, cremoved>>
        /\ UNCHANGED <<trackerVars, bridgeVars>>

CEngineExit ==
    \E i \in Calls : \E code \in {0, 1} :
        /\ cproc[i] \in {"running", "wrote"}
        /\ cproc' = [cproc EXCEPT ![i] = IF code = 0 THEN "exited0" ELSE "exited1"]
        /\ cgenResult' = [cgenResult EXCEPT ![i] =
                             IF code = 0 THEN "ok" ELSE "CalledProcessError"]
        /\ cgen' = [cgen EXCEPT ![i] = "done"]
        /\ UNCHANGED <<cpc, cpath, disk, crd, cread, cpushed, cerr, cagen, cremoved>>
        /\ UNCHANGED <<trackerVars, bridgeVars>>

CGenerateResume ==
    \E i \in Calls :
        /\ cpc[i] = "await_generate"
        /\ cgen[i] = "done"
        /\ IF cgenResult[i] # "ok"
           THEN /\ CUnlink(i)
                /\ cagen' = [cagen EXCEPT ![i] = "closed"]
                /\ cpc' = [cpc EXCEPT ![i] = "raised"]
                /\ cerr' = [cerr EXCEPT ![i] = [type |-> cgenResult[i]]]
                /\ UNCHANGED crd
           ELSE /\ crd' = [crd EXCEPT ![i] = "queued"]
                /\ cpc' = [cpc EXCEPT ![i] = "await_read"]
                /\ UNCHANGED <<disk, cremoved, cagen, cerr>>
        /\ UNCHANGED <<cpath, cgen, cgenResult, cproc, cread, cpushed>>
        /\ UNCHANGED <<trackerVars, bridgeVars>>

CReadWorker ==
    \E i \in Calls :
        /\ crd[i] = "queued"
        /\ crd' = [crd EXCEPT ![i] = "done"]
        /\ cread' = [cread EXCEPT ![i] = ReadOf(disk[cpath[i]])]
        /\ UNCHANGED <<cpc, cpath, disk, cgen, cgenResult, cproc, cpushed, cerr,
                       cagen, cremoved>>
        /\ UNCHANGED <<trackerVars, bridgeVars>>

CReadFailed ==
    \E i \in Calls :
        /\ cpc[i] = "await_read"
        /\ crd[i] = "done"
        /\ ~cread[i].ok
        /\ CUnlink(i)
        /\ cagen' = [cagen EXCEPT ![i] = "closed"]
        /\ cpc' = [cpc EXCEPT ![i] = "raised"]
        /\ cerr' = [cerr EXCEPT ![i] = [type |-> cread[i].type]]
        /\ UNCHANGED <<cpath, cgen, cgenResult, cproc, crd, cread, cpushed>>
        /\ UNCHANGED <<trackerVars, bridgeVars>>

CPushAndReturn ==
    \E i \in Calls :
        /\ cpc[i] = "await_read"
        /\ crd[i] = "done"
        /\ cread[i].ok
        /\ cpushed' = [cpushed EXCEPT ![i] = Append(@, cread[i].audio)]
        /\ CUnlink(i)
        /\ cagen' = [cagen EXCEPT ![i] = "closed"]
        /\ cpc' = [cpc EXCEPT ![i] = "returned"]
        /\ UNCHANGED <<cpath, cgen, cgenResult, cproc, crd, cread, cerr>>
        /\ UNCHANGED <<trackerVars, bridgeVars>>

CPushRaises ==
    \E i \in Calls :
        /\ cpc[i] = "await_read"
        /\ crd[i] = "done"
        /\ cread[i].ok
        /\ cagen' = [cagen EXCEPT ![i] = "finalizing"]
        /\ cpc' = [cpc EXCEPT ![i] = "raised"]
        /\ cerr' = [cerr EXCEPT ![i] = [type |-> "PushError"]]
        /\ UNCHANGED <<cpath, disk, cgen, cgenResult, cproc, crd, cread, cpushed,
                       cremoved>>
        /\ UNCHANGED <<trackerVars, bridgeVars>>

CAgenFinalize ==
    \E i \in Calls :
        /\ cagen[i] = "finalizing"
        /\ cagen' = [cagen EXCEPT ![i] = "closed"]
        /\ CUnlink(i)
        /\ UNCHANGED <<cpc, cpath, cgen, cgenResult, cproc, crd, cread, cpushed,
                       cerr>>
        /\ UNCHANGED <<trackerVars, bridgeVars>>

CCancel ==
    \E i \in Calls :
        /\ cpc[i] \in {"await_generate", "await_read"}
        /\ CUnlink(i)
        /\ cagen' = [cagen EXCEPT ![i] = "closed"]
        /\ cpc' = [cpc EXCEPT ![i] = "raised"]
        /\ cerr' = [cerr EXCEPT ![i] = [type |-> "CancelledError"]]
        /\ cgen' = [cgen EXCEPT ![i] = IF @ = "queued" THEN "cancelled" ELSE @]
        /\ crd' = [crd EXCEPT ![i] = IF @ = "queued" THEN "cancelled" ELSE @]
        /\ UNCHANGED <<cpath, cgenResult, cproc, cread, cpushed>>
        /\ UNCHANGED <<trackerVars, bridgeVars>>

(***************************************************************************)
(* Specifications                                                          *)
(***************************************************************************)
\* One synthesis call; the tracker is constructed and left alone.
Init == TrackerInit /\ BridgeInit /\ ConcInit

Next ==
    \/ RunStart
    \/ GenerateSpawn
    \/ EngineWrite
    \/ EngineExit
    \/ GenerateResume
    \/ ReadWorker
    \/ ReadFailed
    \/ PushAndReturn
    \/ PushRaises
    \/ AgenFinalize
    \/ Cancel

Spec == Init /\ [][Next]_vars

\* One synthesis call beside another task of the same event loop.
NextLoop == Next \/ OtherTask

SpecLoop == Init /\ [][NextLoop]_vars

\* Two synthesis calls on a plugin whose paths exist, in any interleaving.
InitConcurrent ==
    /\ TrackerInit
    /\ BridgeInit /\ piperExists /\ piperExecutable /\ modelExists
    /\ ConcInit

NextConcurrent ==
    \/ CRunStart
    \/ CGenerateSpawn
    \/ CEngineWrite
    \/ CEngineExit
    \/ CGenerateResume
    \/ CReadWorker
    \/ CReadFailed
    \/ CPushAndReturn
    \/ CPushRaises
    \/ CAgenFinalize
    \/ CCancel

SpecConcurrent == InitConcurrent /\ [][NextConcurrent]_vars

\* The tracker receiving metrics; no synthesis call is started.
InitTracker ==
    /\ TrackerInit
    /\ BridgeInit /\ piperExists /\ piperExecutable /\ modelExists
    /\ ConcInit

NextTracker == OnMetrics

SpecTracker == InitTracker /\ [][NextTracker]_vars

\* The tracker with its history of completed keys.
NextTrackerHistory == OnMetricsHistory

SpecTrackerHistory == InitTracker /\ [][NextTrackerHistory]_vars

(***************************************************************************)
(* Claims about LatencyTracker, checked under SpecTracker                  *)
(***************************************************************************)
Parts == {"stt", "llm", "tts"}

\* The timing attribute a part is taken from.
FieldOf(p) ==
    IF p = "stt" THEN "end_of_utterance_delay"
    ELSE IF p = "llm" THEN "ttft"
    ELSE "ttfb"

\* The record of k when the last call started (empty when it had none).
RecordBefore(k) == IF k \in DOMAIN before THEN before[k] ELSE EmptyDict

\* The parts the last call's event carries for key k.
EventParts(k) ==
    IF event.key = k THEN {p \in Parts : FieldOf(p) \in DOMAIN event.fields} ELSE {}

\* The parts observed for k once the last call has taken its event.
PresentAfter(k) == DOMAIN RecordBefore(k) \cup EventParts(k)

\* The most recent value observed for part p of k, the last call included.
LatestMs(k, p) ==
    IF p \in EventParts(k)
    THEN (event.fields[FieldOf(p)] * 1000) \div 20
    ELSE RecordBefore(k)[p]

\* The combined total-latency lines the last call logged for k.
Completions(k) ==
    {i \in DOMAIN logged : logged[i].line = "Total" /\ logged[i].key = k}

\* C1: a call logs the combined total for key k only if k's three parts are
\* all present after that call and were not all present before it; the
\* total is the sum of the three values held for k (100 + 200 + 50 = 350);
\* and k is not in the table once the call is over.
C1_CompletionOnlyWhenAllThree ==
    called =>
        \A k \in Keys : \A i \in Completions(k) :
            /\ event.key = k
            /\ PresentAfter(k) = Parts
            /\ DOMAIN RecordBefore(k) # Parts
            /\ logged[i].total
                 = LatestMs(k, "stt") + LatestMs(k, "llm") + LatestMs(k, "tts")
            /\ (LatestMs(k, "stt") = 100 /\ LatestMs(k, "llm") = 200
                    /\ LatestMs(k, "tts") = 50 => logged[i].total = 350)
            /\ k \notin DOMAIN parts

\* The spec's example: a has stt = 100 and llm = 200, b has a record of its
\* own, and the tts event of a arrives.
C1_Witness ==
    /\ called
    /\ {"a", "b"} \subseteq DOMAIN before
    /\ before["a"] = [p \in {"stt", "llm"} |-> IF p = "stt" THEN 100 ELSE 200]
    /\ event = [key |-> "a", fields |-> [f \in {"ttfb"} |-> 1]]
    /\ \E i \in Completions("a") : logged[i].total = 350
    /\ "a" \notin DOMAIN parts
    /\ "b" \in DOMAIN parts

\* C6: a call whose event has no speech_id leaves the table as it was and
\* logs no combined total, whatever the table holds.
C6_NoKeyNoEffect ==
    (called /\ event.key = NoKey) =>
        /\ parts = before
        /\ NoKey \notin DOMAIN parts
        /\ \A i \in DOMAIN logged : logged[i].line # "Total"

\* An event with all three timings and no speech_id meets a table that
\* holds records.
C6_Witness ==
    /\ called
    /\ event.key = NoKey
    /\ DOMAIN event.fields = Fields
    /\ DOMAIN before = Keys
    /\ parts = before

\* C7: when the event of the last call carries a part that k's record
\* already held, the record, if it stays, holds the event's value for that
\* part, and a total logged by that call counts the event's value for it.
C7_LastWriteWins ==
    called =>
        \A k \in Keys : \A p \in EventParts(k) \cap DOMAIN RecordBefore(k) :
            LET v == (event.fields[FieldOf(p)] * 1000) \div 20
                others == Parts \ {p}
            IN  /\ k \in DOMAIN parts => parts[k][p] = v
                /\ \A i \in Completions(k) :
                      /\ logged[i][p] = v
                      /\ \E q, r \in others :
                            /\ q # r
                            /\ logged[i].total = v + LatestMs(k, q) + LatestMs(k, r)

\* b holds stt = 100 and llm = 200; an event brings stt = 200 and tts = 50:
\* the total is 200 + 200 + 50.
C7_Witness ==
    /\ called
    /\ event.key = "b"
    /\ "b" \in DOMAIN before
    /\ DOMAIN before["b"] = {"stt", "llm"}
    /\ before["b"]["stt"] = 100
    /\ before["b"]["llm"] = 200
    /\ event.fields = [f \in {"end_of_utterance_delay", "ttfb"} |->
                          IF f = "ttfb" THEN 1 ELSE 4]
    /\ \E i \in Completions("b") : logged[i].total = 450 /\ logged[i].stt = 200

\* C11: on_metrics_collected returns the completed latency record on the
\* call that completes a key, and nothing (None) on every other call.
C11_ReturnsCompletedLatency ==
    called => ((JustCompleted # {}) <=> (returned # None))

\* C12: a call whose event has none of the three timing attributes logs
\* nothing and leaves the table exactly as it was, with or without a key.
C12_NoTimingIgnored ==
    (called /\ DOMAIN event.fields = {}) =>
        /\ logged = <<>>
        /\ parts = before

\* The record of k once the last call is over: the stored one, or the one
\* the call completed and logged.
RecordAfter(k) ==
    IF k \in DOMAIN parts THEN parts[k]
    ELSE IF Completions(k) # {}
    THEN LET t == logged[CHOOSE i \in Completions(k) : TRUE]
         IN  [p \in Parts |-> t[p]]
    ELSE EmptyDict

\* Parts of k the last call added or changed.
SetByCall(k) ==
    {p \in DOMAIN RecordAfter(k) :
        p \notin DOMAIN RecordBefore(k) \/ RecordAfter(k)[p] # RecordBefore(k)[p]}

\* The per-kind latency lines of the last call.
KindLines == {i \in DOMAIN logged : logged[i].line \in {"STT", "LLM", "TTS"}}

KindOfPart(p) == IF p = "stt" THEN "STT" ELSE IF p = "llm" THEN "LLM" ELSE "TTS"

\* C13: one call logs at most one per-kind latency line and adds or changes
\* at most one part of its key's record, the part of the kind it logged.
C13_OneKindPerEvent ==
    called =>
        /\ Cardinality(KindLines) <= 1
        /\ \A k \in Keys :
              /\ Cardinality(SetByCall(k)) <= 1
              /\ \A p \in SetByCall(k) :
                    \E i \in KindLines : logged[i].line = KindOfPart(p)

\* C16: the table holds records of speech ids only, none of them with all
\* three parts; the key a call completed is not in the table after it; and
\* a key that had no record and was not the key of the call has none after.
C16_TableInvariant ==
    /\ DOMAIN parts \subseteq Keys
    /\ \A k \in DOMAIN parts : DOMAIN parts[k] # Parts
    /\ ~called => parts = EmptyDict
    /\ called =>
          \A k \in Keys :
              /\ Completions(k) # {} => k \notin DOMAIN parts
              /\ (k \notin DOMAIN before /\ event.key # k) => k \notin DOMAIN parts

\* a has just completed and is gone, while b waits with two parts.
C16_Witness ==
    /\ called
    /\ Completions("a") # {}
    /\ "a" \in DOMAIN before
    /\ "a" \notin DOMAIN parts
    /\ "b" \in DOMAIN parts
    /\ Cardinality(DOMAIN parts["b"]) = 2

\* C17: a key is completed at most once: the key of a combined total was
\* not completed by any earlier call.
C17_OneCompletionPerKey ==
    \A k \in JustCompleted : k \notin completed

\* C18: a call leaves the record of every key other than its own as it
\* was, and a record of its own key that it does not complete stays in the
\* table with every part it had, unchanged where the event carries no value
\* for the part.
C18_OtherKeysUntouched ==
    called =>
        \A k \in Keys :
            /\ event.key # k =>
                  /\ (k \in DOMAIN parts) <=> (k \in DOMAIN before)
                  /\ k \in DOMAIN before => parts[k] = before[k]
            /\ (k \in DOMAIN before /\ Completions(k) = {}) =>
                  /\ k \in DOMAIN parts
                  /\ \A p \in DOMAIN before[k] :
                        /\ p \in DOMAIN parts[k]
                        /\ p \notin EventParts(k) => parts[k][p] = before[k][p]

\* a completes and is removed; b's two-part record is still there.
C18_Witness ==
    /\ called
    /\ event.key = "a"
    /\ Completions("a") # {}
    /\ "b" \in DOMAIN before
    /\ Cardinality(DOMAIN before["b"]) = 2
    /\ "b" \in DOMAIN parts
    /\ parts["b"] = before["b"]

(***************************************************************************)
(* Claims about PiperStream._run, checked under Spec                       *)
(***************************************************************************)
Cancelled == error.type = "CancelledError"
Exited == proc \in {"exited0", "exited1"}

\* C2: when _run has returned or raised, and was not cancelled, the
\* temporary file it created is not on disk.
C2_TempFileGoneOnExit ==
    (pc \in {"returned", "raised"} /\ ~Cancelled) => file = Absent

\* C3: when _run was cancelled and the piper subprocess has exited, the
\* temporary file is not on disk.
C3_TempFileGoneAfterCancel ==
    (Cancelled /\ Exited) => file = Absent

\* C4: when piper_path or model_path does not exist, no temporary file is
\* created, no subprocess is spawned, the emitter is neither initialized nor
\* pushed to, and _run raises FileNotFoundError naming the missing path.
C4_MissingPathFailsFirst ==
    (~piperExists \/ ~modelExists) =>
        /\ tempCreated = 0
        /\ file = Absent
        /\ spawns = 0
        /\ proc = "none"
        /\ gen = "idle"
        /\ inits = <<>>
        /\ pushed = <<>>
        /\ pc \in {"start", "raised"}
        /\ pc = "raised" =>
              /\ error.type = "FileNotFoundError"
              /\ ~piperExists => error.path = "piper_path"
              /\ piperExists => error.path = "model_path"

\* The binary is there, the model is not, and _run has raised.
C4_Witness ==
    /\ piperExists
    /\ ~modelExists
    /\ pc = "raised"
    /\ error = [type |-> "FileNotFoundError", path |-> "model_path"]

\* C5: the emitter is initialized at most once, before any push, with one
\* channel, the plugin's sample rate and stream=False; a _run that returned
\* initialized it once and pushed once, as many samples as the container has
\* frames when the container is mono 16-bit; a _run that raised pushed
\* nothing.
C5_SingleShot ==
    /\ Len(inits) <= 1
    /\ Len(pushed) <= 1
    /\ pushed # <<>> => pc = "returned"
    /\ \A i \in DOMAIN inits :
          /\ inits[i].num_channels = 1
          /\ inits[i].sample_rate = 22050
          /\ inits[i].stream = FALSE
    /\ pc = "returned" =>
          /\ Len(inits) = 1
          /\ Len(pushed) = 1
          /\ (engineOut.kind = "wav" /\ engineOut.nchannels = 1
                  /\ engineOut.sampwidth = 2)
                => Len(pushed[1]) = engineOut.nframes
    /\ pc = "raised" => pushed = <<>>

\* A mono 16-bit container of two frames was written and _run returned.
C5_Witness ==
    /\ pc = "returned"
    /\ engineOut.kind = "wav"
    /\ engineOut.nchannels = 1
    /\ engineOut.sampwidth = 2
    /\ engineOut.nframes = 2
    /\ Len(pushed) = 1
    /\ Len(pushed[1]) = 2

\* m is (l + r) / 2 with its fraction dropped.
IsTruncatedMean(l, r, m) ==
    LET s == l + r
    IN  /\ s - 2 * m \in {-1, 0, 1}
        /\ s >= 0 => (0 <= 2 * m /\ 2 * m <= s)
        /\ s <= 0 => (s <= 2 * m /\ 2 * m <= 0)

\* C8: _read of a stereo 16-bit container of n frames returns n samples,
\* sample i the truncated mean of the two samples of frame i ([100, 200] and
\* [4, -4] give [150, 0]); that audio is what a returned _run has pushed.
C8_StereoDownmix ==
    (rd = "done" /\ engineOut.kind = "wav" /\ engineOut.nchannels = 2
        /\ engineOut.sampwidth = 2) =>
        /\ readResult.ok
        /\ Len(readResult.audio) = engineOut.nframes
        /\ \A i \in 1..engineOut.nframes :
              IsTruncatedMean(engineOut.words[2 * i - 1], engineOut.words[2 * i],
                              readResult.audio[i])
        /\ engineOut.words = <<100, 200, 4, -4>> => readResult.audio = <<150, 0>>
        /\ pc = "returned" => pushed = <<readResult.audio>>

\* A frame whose sum is odd and negative, and one whose sum leaves int16.
C8_Witness ==
    /\ rd = "done"
    /\ engineOut.kind = "wav"
    /\ engineOut.nchannels = 2
    /\ engineOut.sampwidth = 2
    /\ engineOut.words = <<-32768, 32767, 32767, 32767>>
    /\ readResult.ok
    /\ readResult.audio = <<0, 32767>>

\* C9: when the container piper wrote (holding at least one frame) has a
\* channel count other than 1 or 2, or a sample width other than 16 bits, a
\* _run that read it and was not cancelled raises, and pushes no audio.
C9_UnsupportedFormatRejected ==
    (/\ pc \in {"returned", "raised"}
     /\ ~Cancelled
     /\ rd = "done"
     /\ engineOut.kind = "wav"
     /\ engineOut.nframes > 0
     /\ (engineOut.nchannels \notin {1, 2} \/ engineOut.sampwidth # 2)) =>
        /\ pc = "raised"
        /\ pushed = <<>>

\* C10: _read is submitted only after piper has exited with code zero; when
\* piper exits non-zero or cannot be spawned, _read is never started,
\* nothing is pushed, and what _run raises is that error; subprocess.run is
\* entered at most once.
C10_ReadOnlyAfterExitZero ==
    /\ spawns <= 1
    /\ (rd # "idle" \/ reads > 0) => proc = "exited0"
    /\ proc = "exited1" => genResult = "CalledProcessError"
    /\ genResult \in {"CalledProcessError", "OSError"} =>
          /\ rd = "idle"
          /\ reads = 0
          /\ readResult = NoResult
          /\ pushed = <<>>
          /\ pc \in {"await_generate", "raised"}
          /\ (pc = "raised" /\ ~Cancelled) => error.type = genResult

\* piper wrote a file, exited with code 1, and _run raised.
C10_Witness ==
    /\ proc = "exited1"
    /\ engineOut.kind = "wav"
    /\ pc = "raised"
    /\ error.type = "CalledProcessError"
    /\ reads = 0
    /\ spawns = 1

\* C14: a binary that exists but cannot be executed makes _run raise
\* FileNotFoundError from its first step, with no temporary file created and
\* subprocess.run never entered.
C14_NotExecutableRejectedEagerly ==
    (piperExists /\ ~piperExecutable /\ pc # "start") =>
        /\ pc = "raised"
        /\ error.type = "FileNotFoundError"
        /\ tempCreated = 0
        /\ spawns = 0

\* C15: while _run waits for the subprocess job or for the read job, another
\* task of the event loop can take a step; and a _run that was not cancelled
\* is past an await only when the job it waited for is done.
C15_LoopNotBlocked ==
    /\ JobAwaited # {} => ENABLED OtherTask
    /\ (pc \in {"await_read", "returned"}
          \/ (pc = "raised" /\ ~Cancelled /\ tempCreated > 0)) => gen = "done"
    /\ (pc = "returned" \/ (pc = "raised" /\ ~Cancelled /\ genResult = "ok"))
          => rd = "done"

\* Another task stepped during the subprocess and during the read, and _run
\* returned.
C15_Witness ==
    /\ otherDuring = {"generate", "read"}
    /\ proc = "exited0"
    /\ pc = "returned"

(***************************************************************************)
(* Claims about concurrent calls, checked under SpecConcurrent             *)
(***************************************************************************)
InProgress(i) == cpc[i] \in {"await_generate", "await_read"}

\* C19: two calls in progress never have the same temporary path; a call
\* reads and unlinks only a file it created; and what a call pushes is the
\* audio of its own input text.
C19_CallsIndependent ==
    /\ \A i, j \in Calls :
          (i # j /\ InProgress(i) /\ InProgress(j)) => cpath[i] # cpath[j]
    /\ \A i \in Calls :
          /\ cremoved[i] \subseteq {i}
          /\ cread[i].ok => (cread[i].owner = i /\ cread[i].audio = i)
          /\ \A n \in DOMAIN cpushed[i] : cpushed[i][n] = i

====
